---- MODULE Spec2Model ----
(***************************************************************************)
(* A model of npg_irods.illumina (the Component identity, the flowcell     *)
(* resolver, the change scanner and the secondary-metadata reconciliation) *)
(* and of npg_irods.mlwh_locations.illumina (the product extractor).       *)
(***************************************************************************)
EXTENDS Integers, Sequences, FiniteSets, TLC

\* ------------------------------------------------------------------------
\* Optional values (Python's Optional[T]): the empty set is None, a present
\* value x is {x}.
\* ------------------------------------------------------------------------
None == {}
Some(x) == {x}
Get(o) == CHOOSE x \in o : TRUE

\* A call's outcome: a returned value, or the exception it raised.
Ok(v) == [ok |-> TRUE, err |-> "", val |-> Some(v)]
Err(e) == [ok |-> FALSE, err |-> e, val |-> None]

\* ------------------------------------------------------------------------
\* illumina.py: TagIndex
\* ------------------------------------------------------------------------
BIN == 0
CONTROL_198 == 198
CONTROL_888 == 888

\* ------------------------------------------------------------------------
\* illumina.py: SeqSubset members (named by their values) and the metadata
\* keys of a component descriptor.
\* ------------------------------------------------------------------------
HUMAN == "human"
XAHUMAN == "xahuman"
YHUMAN == "yhuman"
PHIX == "phix"
SeqSubset == {HUMAN, XAHUMAN, YHUMAN, PHIX}

ComponentAttr == "component"
RunKey == "id_run"
PositionKey == "position"
TagIndexKey == "tag_index"
SubsetKey == "subset"

\* ------------------------------------------------------------------------
\* JSON values as Python holds them.  An enum member is a Python object of
\* its own: it is not the string that is its .value.
\* ------------------------------------------------------------------------
JInt(n) == [t |-> "int", i |-> n, s |-> ""]
JStr(x) == [t |-> "str", i |-> 0, s |-> x]
EnumMember(x) == [t |-> "enum", i |-> 0, s |-> x]

\* A JSON object's text is the sequence of its <<key, value>> members in the
\* order they are written.  json.loads gives the dict (a later member of the
\* same key wins).
KeysOf(text) == {text[n][1] : n \in 1..Len(text)}
LastIndexOf(text, k) == CHOOSE n \in 1..Len(text) :
    /\ text[n][1] = k
    /\ \A m \in (n+1)..Len(text) : text[m][1] # k
JsonLoads(text) == [k \in KeysOf(text) |-> text[LastIndexOf(text, k)][2]]

\* sort_keys=True: the keys of a descriptor in lexicographic order.
KeyOrder == <<RunKey, PositionKey, SubsetKey, TagIndexKey>>
RECURSIVE SortedMembers(_, _)
SortedMembers(rep, n) ==
    IF n > Len(KeyOrder) THEN <<>>
    ELSE (IF KeyOrder[n] \in DOMAIN rep
             THEN << <<KeyOrder[n], rep[KeyOrder[n]]>> >>
             ELSE <<>>) \o SortedMembers(rep, n + 1)

\* json.dumps(rep, sort_keys=True, separators=(",", ":")): an int and a str
\* are serializable, an Enum member is not (TypeError).
JsonDumps(rep) ==
    IF \E k \in DOMAIN rep : rep[k].t = "enum"
    THEN Err("TypeError")
    ELSE Ok(SortedMembers(rep, 1))

\* ------------------------------------------------------------------------
\* illumina.py: Component
\* ------------------------------------------------------------------------
\* int(tag_index); the descriptors drawn below carry JSON integers only.
IntOf(v) == IF v.t = "int" THEN Ok(v.i) ELSE Err("ValueError")

\* The match statement of Component.__init__ over the subset argument.
MatchSubset(subset) ==
    IF subset = None THEN Ok(None)
    ELSE IF Get(subset).t = "str" /\ Get(subset).s \in SeqSubset
         THEN Ok(Some(Get(subset).s))
         ELSE Err("ValueError")

\* Component.__init__(id_run, position, tag_index=None, subset=None).
\* tag_index and subset are Optional; subset holds a SeqSubset member.
ComponentNew(id_run, position, tag_index, subset) ==
    LET t == IF tag_index = None THEN Ok(None)
             ELSE LET n == IntOf(Get(tag_index))
                  IN IF n.ok THEN Ok(Some(Get(n.val))) ELSE n
        s == MatchSubset(subset)
    IN IF ~t.ok THEN Err(t.err)
       ELSE IF ~s.ok THEN Err(s.err)
       ELSE Ok([id_run |-> id_run, position |-> position,
                tag_index |-> Get(t.val), subset |-> Get(s.val)])

\* dict.get(key, None)
DictGet(d, k) == IF k \in DOMAIN d THEN Some(d[k]) ELSE None

\* Component.from_avu: every exception (wrong attribute, missing key,
\* invalid subset) is re-raised as ValueError.
FromAvu(avu) ==
    IF avu.attribute # ComponentAttr THEN Err("ValueError")
    ELSE LET avu_value == JsonLoads(avu.value)
         IN IF RunKey \notin DOMAIN avu_value \/ PositionKey \notin DOMAIN avu_value
            THEN Err("ValueError")
            ELSE LET c == ComponentNew(avu_value[RunKey].i, avu_value[PositionKey].i,
                                       DictGet(avu_value, TagIndexKey),
                                       DictGet(avu_value, SubsetKey))
                 IN IF c.ok THEN c ELSE Err("ValueError")

\* Component.contains_nonconsented_human
ContainsNonconsentedHumanNoXa(c) ==
    c.subset # None /\ Get(c.subset) \in {HUMAN}

ContainsNonconsentedHuman(c) ==
    c.subset # None /\ Get(c.subset) \in {HUMAN, XAHUMAN}

\* The dict Component.__repr__ builds: the subset entry is the SeqSubset
\* member itself.
ReprDict(c) ==
    LET keys == {RunKey, PositionKey}
                \cup (IF c.tag_index # None THEN {TagIndexKey} ELSE {})
                \cup (IF c.subset # None THEN {SubsetKey} ELSE {})
    IN [k \in keys |->
          IF k = RunKey THEN JInt(c.id_run)
          ELSE IF k = PositionKey THEN JInt(c.position)
          ELSE IF k = TagIndexKey THEN JInt(Get(c.tag_index))
          ELSE EnumMember(Get(c.subset))]

\* Component.__repr__
Repr(c) == JsonDumps(ReprDict(c))

\* ------------------------------------------------------------------------
\* The ML warehouse as the queries see it.  flowcells[n] is the IseqFlowcell
\* row whose id_iseq_flowcell_tmp is n (position, tag_index, the sample and
\* the study it refers to, recorded_at); metrics is the set of
\* IseqProductMetrics rows (the flowcell row each belongs to, id_run,
\* last_changed), a row's position and tag index being its flowcell's;
\* samples and studies give each Sample's and Study's recorded_at.
\* ------------------------------------------------------------------------
Range(f) == {f[x] : x \in DOMAIN f}
Ids(seq) == [n \in 1..Len(seq) |-> n]

\* The match statement of find_flowcells_by_component over the tag index:
\* the filter the query gets, or "raise".
TagIndexFilterControlsKept(tag_index, include_controls) ==
    IF tag_index = None THEN "is_null"
    ELSE IF Get(tag_index) = BIN THEN "is_not_null"
    ELSE "exact"

TagIndexFilterBinExact(tag_index, include_controls) ==
    IF tag_index = None THEN "is_null"
    ELSE IF Get(tag_index) \in {CONTROL_198, CONTROL_888} /\ include_controls
         THEN "exact"
    ELSE IF Get(tag_index) \in {CONTROL_198, CONTROL_888} THEN "raise"
    ELSE "exact"

TagIndexFilter(tag_index, include_controls) ==
    IF tag_index = None THEN "is_null"
    ELSE IF Get(tag_index) \in {CONTROL_198, CONTROL_888} /\ include_controls
         THEN "exact"
    ELSE IF Get(tag_index) \in {CONTROL_198, CONTROL_888} THEN "raise"
    ELSE IF Get(tag_index) = BIN THEN "is_not_null"
    ELSE "exact"

\* One joined row (an IseqFlowcell row fc with one of its product metrics
\* rows pm) passes the query's filters.
RowMatches(fc, pm, component, filter) ==
    /\ pm.id_run = component.id_run
    /\ fc.position = component.position
    /\ CASE filter = "exact" -> fc.tag_index = component.tag_index
         [] filter = "is_not_null" -> fc.tag_index # None
         [] filter = "is_null" -> fc.tag_index = None
         [] OTHER -> FALSE

\* find_flowcells_by_component: the distinct flowcell rows of the join that
\* pass the filters, by ascending id_iseq_flowcell_tmp (each row is named by
\* that id), or the ValueError of a control tag index with controls excluded.
FindFlowcellsByComponent(wh, component, include_controls) ==
    LET filter == TagIndexFilter(component.tag_index, include_controls)
        Selected(id) == \E pm \in wh.metrics :
            /\ pm.id_iseq_flowcell_tmp = id
            /\ RowMatches(wh.flowcells[id], pm, component, filter)
    IN IF filter = "raise" THEN Err("ValueError")
       ELSE Ok(SelectSeq(Ids(wh.flowcells), Selected))

\* ------------------------------------------------------------------------
\* The collaborators of ensure_secondary_metadata_updated that live in
\* npg_irods.metadata.lims and npg_irods.common.
\* ------------------------------------------------------------------------
AC(kind, id, perm) == [kind |-> kind, id |-> id, perm |-> perm]
AVU(attribute, value) == [attribute |-> attribute, value |-> value]

MakeSampleMetadata(sample) == {AVU("sample", sample)}
MakeStudyMetadata(study) == {AVU("study", study)}
MakeSampleAcl(sample, study) == {AC("study", study, "read")}

HasConsentWithdrawnMetadata(item) == item.marker

\* The consent-withdrawn ACL: the entries of the owner and of the
\* administrative accounts that have access now.
ConsentWithdrawnAcl(acl) == {ac \in acl : ac.kind \in {"owner", "rodsadmin"}}

\* Each write returns the item as written and whether anything changed.
EnsureConsentWithdrawn(item) ==
    LET acl == ConsentWithdrawnAcl(item.acl)
    IN [item |-> [item EXCEPT !.acl = acl], changed |-> acl # item.acl]

UpdateMetadata(item, avus) ==
    [item |-> [item EXCEPT !.secondary = avus], changed |-> avus # item.secondary]

UpdatePermissions(item, acl) ==
    [item |-> [item EXCEPT !.acl = acl], changed |-> acl # item.acl]

\* ------------------------------------------------------------------------
\* illumina.py: ensure_secondary_metadata_updated
\* ------------------------------------------------------------------------
\* [Component.from_avu(avu) for avu in item.metadata(SeqConcept.COMPONENT)]
ParseComponents(avus) ==
    IF \E n \in 1..Len(avus) : ~FromAvu(avus[n]).ok THEN Err("ValueError")
    ELSE Ok([n \in 1..Len(avus) |-> Get(FromAvu(avus[n]).val)])

\* The two loops: the flowcell rows every component resolves to (the first
\* resolver error ends the call).
ResolveComponents(wh, components, include_controls) ==
    LET r == [n \in 1..Len(components) |->
                 FindFlowcellsByComponent(wh, components[n], include_controls)]
    IN IF \E n \in 1..Len(components) : ~r[n].ok THEN Err("ValueError")
       ELSE Ok(UNION {Range(Get(r[n].val)) : n \in 1..Len(components)})

SecondaryMetadata(wh, facts) ==
    UNION {MakeSampleMetadata(wh.flowcells[id].sample)
           \cup MakeStudyMetadata(wh.flowcells[id].study) : id \in facts}

AccumulatedAcl(wh, facts) ==
    UNION {MakeSampleAcl(wh.flowcells[id].sample, wh.flowcells[id].study) : id \in facts}

\* The if / elif / else over the permission policy: the writes the call makes,
\* in order.
PermissionWritesMarkerIgnored(item, components) ==
    IF \E n \in 1..Len(components) : ContainsNonconsentedHuman(components[n])
    THEN <<"xahu">>
    ELSE <<"perm">>

PermissionWritesNoElif(item, components) ==
    (IF HasConsentWithdrawnMetadata(item) THEN <<"cons">> ELSE <<>>)
    \o (IF \E n \in 1..Len(components) : ContainsNonconsentedHuman(components[n])
        THEN <<"xahu">>
        ELSE <<"perm">>)

PermissionWrites(item, components) ==
    IF HasConsentWithdrawnMetadata(item) THEN <<"cons">>
    ELSE IF \E n \in 1..Len(components) : ContainsNonconsentedHuman(components[n])
    THEN <<"xahu">>
    ELSE <<"perm">>

RECURSIVE ApplyWrites(_, _, _)
ApplyWrites(writes, w, acl) ==
    IF writes = <<>> THEN w
    ELSE LET u == IF Head(writes) = "perm" THEN UpdatePermissions(w.item, acl)
                  ELSE EnsureConsentWithdrawn(w.item)
         IN ApplyWrites(Tail(writes),
                        [item |-> u.item, changed |-> w.changed \/ u.changed], acl)

Raised(item) ==
    [outcome |-> "ValueError", changed |-> FALSE, writes |-> <<>>,
     facts |-> {}, acl |-> {}, components |-> <<>>, item |-> item]

EnsureSecondaryMetadataUpdated(item, wh, include_controls) ==
    LET parsed == ParseComponents(item.components) IN
    IF ~parsed.ok THEN Raised(item) ELSE
    LET components == Get(parsed.val)
        resolved == ResolveComponents(wh, components, include_controls) IN
    IF ~resolved.ok THEN Raised(item) ELSE
    LET facts == Get(resolved.val)
        acl == AccumulatedAcl(wh, facts)
        meta == UpdateMetadata(item, SecondaryMetadata(wh, facts))
        writes == PermissionWrites(item, components)
        written == ApplyWrites(writes, meta, acl)
    IN [outcome |-> "ok", changed |-> written.changed, writes |-> writes,
        facts |-> facts, acl |-> acl, components |-> components,
        item |-> written.item]

\* ------------------------------------------------------------------------
\* State
\* ------------------------------------------------------------------------
VARIABLES
    mlwh,               \* the ML warehouse: flowcells, metrics, samples, studies
    item,               \* reconciliation: the iRODS item (components, marker,
                        \*   secondary metadata, ACL)
    prev,               \* the item as it was before the last call
    include_controls,   \* the caller's include_controls
    results,            \* what each call of ensure_secondary_metadata_updated
                        \*   returned or raised, oldest first
    call,               \* resolver: the arguments of the last call (or None)
    answer,             \* resolver: what that call returned or raised
    since,              \* change scanner: the checkpoint of the last scan
    yielded,            \* change scanner: the Components it yielded, in order
    avu,                \* round trip: the component AVU given
    cpc,                \* round trip: how far it has got
    parsed,             \* round trip: Component.from_avu(avu)
    text,               \* round trip: repr() of the parsed Component
    reparsed,           \* round trip: Component.from_avu of that text
    coll,               \* extractor: the collection's contents, in order
    processes,          \* extractor: the size of the worker pool
    ppc,                \* extractor: where find_products is
    tasks,              \* extractor: the tasks submitted, cram_results first,
                        \*   then bam_results
    next,               \* extractor: the result extract_products gets next
    acc,                \* extractor: the list extract_products is building
    primary,            \* extractor: what the cram pass returned (or None)
    products,           \* extractor: find_products' products
    log                 \* extractor: the log entries written, in order

reconcileVars == <<item, prev, include_controls, results>>
resolverVars == <<call, answer>>
scannerVars == <<since, yielded>>
roundTripVars == <<avu, cpc, parsed, text, reparsed>>
extractorVars == <<coll, processes, ppc, tasks, next, acc, primary, products, log>>
vars == <<mlwh, reconcileVars, resolverVars, scannerVars, roundTripVars, extractorVars>>

\* ------------------------------------------------------------------------
\* Bounds and the sets inputs are drawn from
\* ------------------------------------------------------------------------
MaxStudy == 2
MaxFlowcells == 2
MaxComponents == 2
MaxRuns == 2
MaxResolverRows == 3
MaxObjects == 2
MaxTime == 1

\* The text of a component descriptor as __repr__ writes it for a Component
\* without a subset, and as the pipeline writes it with one.
Descriptor(id_run, position, tag_index, subset) ==
    << <<RunKey, JInt(id_run)>>, <<PositionKey, JInt(position)>> >>
    \o (IF subset # None THEN << <<SubsetKey, JStr(Get(subset))>> >> ELSE <<>>)
    \o (IF tag_index # None THEN << <<TagIndexKey, JInt(Get(tag_index))>> >> ELSE <<>>)

ComponentAvu(id_run, position, tag_index, subset) ==
    AVU(ComponentAttr, Descriptor(id_run, position, tag_index, subset))

\* The sequences over 1..n of at most k ascending indices.
RECURSIVE Ascending(_, _, _)
Ascending(from, n, k) ==
    {<<>>} \cup (IF k = 0 THEN {}
                 ELSE UNION {{<<m>> \o t : t \in Ascending(m + 1, n, k - 1)}
                             : m \in from..n})

\* The component AVUs an item may carry.
ItemComponentPool ==
    <<ComponentAvu(1, 1, Some(BIN), None),
      ComponentAvu(1, 1, Some(1), None),
      ComponentAvu(1, 1, Some(2), None),
      ComponentAvu(1, 1, Some(CONTROL_888), None),
      ComponentAvu(1, 1, Some(1), Some(HUMAN)),
      ComponentAvu(1, 1, Some(1), Some(XAHUMAN)),
      ComponentAvu(1, 1, Some(1), Some(YHUMAN)),
      ComponentAvu(1, 1, Some(1), Some(PHIX))>>

ItemComponents ==
    {[n \in 1..Len(ix) |-> ItemComponentPool[ix[n]]]
        : ix \in Ascending(1, Len(ItemComponentPool), MaxComponents)}

ItemAcls ==
    {{AC("owner", 0, "own")},
     {AC("owner", 0, "own"), AC("rodsadmin", 0, "own"), AC("study", 1, "read")},
     {AC("owner", 0, "own"), AC("rodsadmin", 0, "own"), AC("study", MaxStudy, "read"),
      AC("public", 0, "read")}}

Items ==
    [components : ItemComponents, marker : BOOLEAN,
     secondary : {{AVU("study", 1)}}, acl : ItemAcls]

Flowcell(position, tag_index, sample, study, recorded_at) ==
    [position |-> position, tag_index |-> tag_index, sample |-> sample,
     study |-> study, recorded_at |-> recorded_at]

ProductMetrics(id, id_run, last_changed) ==
    [id_iseq_flowcell_tmp |-> id, id_run |-> id_run, last_changed |-> last_changed]

\* Warehouses of the reconciliation: one lane of run 1, each flowcell row a
\* tagged sample (or the 888 control) of some study, each with one product
\* metrics row.
PoolTags == <<1, 2, CONTROL_888>>

ReconcileFlowcellPool ==
    [n \in 1..(Len(PoolTags) * MaxStudy) |->
        Flowcell(1, Some(PoolTags[((n - 1) % Len(PoolTags)) + 1]),
                 PoolTags[((n - 1) % Len(PoolTags)) + 1],
                 ((n - 1) \div Len(PoolTags)) + 1, 0)]

Warehouse(fcs, pms, time) ==
    [flowcells |-> fcs, metrics |-> pms,
     samples |-> [x \in {fcs[n].sample : n \in 1..Len(fcs)} |-> time],
     studies |-> [x \in {fcs[n].study : n \in 1..Len(fcs)} |-> time]]

ReconcileWarehouses ==
    {LET fcs == [n \in 1..Len(ix) |-> ReconcileFlowcellPool[ix[n]]]
     IN Warehouse(fcs, {ProductMetrics(id, 1, 0) : id \in 1..Len(fcs)}, 0)
        : ix \in Ascending(1, Len(ReconcileFlowcellPool), MaxFlowcells)}

\* ------------------------------------------------------------------------
\* Reconciliation: one call of ensure_secondary_metadata_updated per step
\* ------------------------------------------------------------------------
ReconcileIdle ==
    /\ item = [components |-> <<>>, marker |-> FALSE, secondary |-> {}, acl |-> {}]
    /\ prev = item
    /\ include_controls = FALSE
    /\ results = <<>>

ResolverIdle == call = None /\ answer = None
ScannerIdle == since = None /\ yielded = <<>>
RoundTripIdle ==
    /\ avu = AVU(ComponentAttr, <<>>)
    /\ cpc = "idle"
    /\ parsed = None
    /\ text = None
    /\ reparsed = None
WarehouseIdle == mlwh = Warehouse(<<>>, {}, 0)
ExtractorIdle ==
    /\ coll = <<>>
    /\ processes = 1
    /\ ppc = "idle"
    /\ tasks = <<>>
    /\ next = 1
    /\ acc = <<>>
    /\ primary = None
    /\ products = <<>>
    /\ log = <<>>

Init ==
    /\ mlwh \in ReconcileWarehouses
    /\ item \in Items
    /\ prev = item
    /\ include_controls \in BOOLEAN
    /\ results = <<>>
    /\ ResolverIdle
    /\ ScannerIdle
    /\ RoundTripIdle
    /\ ExtractorIdle

Reconcile ==
    /\ Len(results) < MaxRuns
    /\ LET r == EnsureSecondaryMetadataUpdated(item, mlwh, include_controls)
       IN /\ item' = r.item
          /\ prev' = item
          /\ results' = Append(results, r)
    /\ UNCHANGED <<mlwh, include_controls, resolverVars, scannerVars, roundTripVars, extractorVars>>

Next == Reconcile

Spec == Init /\ [][Next]_vars

\* ------------------------------------------------------------------------
\* The flowcell resolver on its own: calls of find_flowcells_by_component
\* against a warehouse of two lanes and two runs.
\* ------------------------------------------------------------------------
ResolverFlowcellPool ==
    <<Flowcell(1, None, 1, 1, 0),
      Flowcell(1, Some(1), 1, 1, 0),
      Flowcell(1, Some(2), 2, 1, 0),
      Flowcell(1, Some(CONTROL_198), 3, 2, 0),
      Flowcell(1, Some(CONTROL_888), 3, 2, 0),
      Flowcell(2, None, 1, 1, 0),
      Flowcell(2, Some(1), 2, 1, 0),
      Flowcell(2, Some(CONTROL_888), 3, 2, 0)>>

\* Every flowcell row has product metrics rows for run 1, run 2 or both.
MetricsOver(n) ==
    {UNION {{ProductMetrics(id, r, 0) : r \in runs[id]} : id \in 1..n}
        : runs \in [1..n -> {{1}, {2}, {1, 2}}]}

ResolverWarehouses ==
    UNION {LET fcs == [n \in 1..Len(ix) |-> ResolverFlowcellPool[ix[n]]]
           IN {Warehouse(fcs, pms, 0) : pms \in MetricsOver(Len(fcs))}
              : ix \in Ascending(1, Len(ResolverFlowcellPool), MaxResolverRows)}

QueryComponents ==
    {[id_run |-> 1, position |-> p, tag_index |-> t, subset |-> None]
        : p \in {1, 2},
          t \in {None, Some(BIN), Some(1), Some(CONTROL_198), Some(CONTROL_888)}}

InitResolver ==
    /\ mlwh \in ResolverWarehouses
    /\ ResolverIdle
    /\ ReconcileIdle
    /\ ScannerIdle
    /\ RoundTripIdle
    /\ ExtractorIdle

FindFlowcells ==
    /\ \E c \in QueryComponents, ic \in BOOLEAN :
          /\ call' = Some([component |-> c, include_controls |-> ic])
          /\ answer' = Some(FindFlowcellsByComponent(mlwh, c, ic))
    /\ UNCHANGED <<mlwh, reconcileVars, scannerVars, roundTripVars, extractorVars>>

NextResolver == FindFlowcells

SpecResolver == InitResolver /\ [][NextResolver]_vars

\* ------------------------------------------------------------------------
\* illumina.py: find_components_changed
\* ------------------------------------------------------------------------
\* The rows of the join of IseqFlowcell with its Sample, its Study and its
\* product metrics, by ascending id_iseq_flowcell_tmp (rows of one flowcell
\* by id_run), as <<flowcell id, id_run>>.
RECURSIVE JoinedFrom(_, _, _)
JoinedFrom(wh, id, id_run) ==
    IF id > Len(wh.flowcells) THEN <<>>
    ELSE IF id_run > 2 THEN JoinedFrom(wh, id + 1, 1)
    ELSE (IF \E pm \in wh.metrics :
                 pm.id_iseq_flowcell_tmp = id /\ pm.id_run = id_run
             THEN << <<id, id_run>> >>
             ELSE <<>>) \o JoinedFrom(wh, id, id_run + 1)

PmOf(wh, row) ==
    CHOOSE pm \in wh.metrics :
        pm.id_iseq_flowcell_tmp = row[1] /\ pm.id_run = row[2]

\* The filter: one of the four timestamps is at or after the checkpoint.
ChangedSinceStrict(wh, row, t) ==
    LET fc == wh.flowcells[row[1]]
    IN \/ wh.samples[fc.sample] > t
       \/ wh.studies[fc.study] > t
       \/ fc.recorded_at > t
       \/ PmOf(wh, row).last_changed > t

ChangedSince(wh, row, t) ==
    LET fc == wh.flowcells[row[1]]
    IN \/ wh.samples[fc.sample] >= t
       \/ wh.studies[fc.study] >= t
       \/ fc.recorded_at >= t
       \/ PmOf(wh, row).last_changed >= t

\* The projection (IseqProductMetrics.id_run, IseqFlowcell.position,
\* IseqFlowcell.tag_index) of a row.
Projection(wh, row) ==
    <<row[2], wh.flowcells[row[1]].position, wh.flowcells[row[1]].tag_index>>

\* .distinct(): each projected row once, at its first place.
RECURSIVE DistinctKept(_, _)
DistinctKept(rows, seen) ==
    IF rows = <<>> THEN <<>>
    ELSE IF Head(rows) \in seen THEN DistinctKept(Tail(rows), seen)
    ELSE <<Head(rows)>> \o DistinctKept(Tail(rows), seen \cup {Head(rows)})

Distinct(rows) == DistinctKept(rows, {})

\* Component(*rpt): the three columns positionally, no subset.
ComponentOfRow(rpt) ==
    Get(ComponentNew(rpt[1], rpt[2],
                     IF rpt[3] = None THEN None ELSE Some(JInt(Get(rpt[3]))),
                     None).val)

FindComponentsChanged(wh, t) ==
    LET joined == JoinedFrom(wh, 1, 1)
        Kept(row) == ChangedSince(wh, row, t)
        filtered == SelectSeq(joined, Kept)
        rpts == Distinct([n \in 1..Len(filtered) |-> Projection(wh, filtered[n])])
    IN [n \in 1..Len(rpts) |-> ComponentOfRow(rpts[n])]

\* Warehouses of the scan: two flowcell rows of lane 1 (untagged or tag 1),
\* each of sample and study 1 or 2 (sample n is of study n), each with one
\* product metrics row of run 1; every timestamp in 0..MaxTime.
Times == 0..MaxTime

ScanWarehouses ==
    {[flowcells |-> [n \in 1..2 |->
                        Flowcell(1, tag[n], who[n], who[n], fct[n])],
      metrics |-> {ProductMetrics(n, 1, pmt[n]) : n \in 1..2},
      samples |-> st, studies |-> sdt]
        : tag \in [1..2 -> {None, Some(1)}], who \in [1..2 -> {1, 2}],
          fct \in [1..2 -> Times], pmt \in [1..2 -> Times],
          st \in [1..2 -> Times], sdt \in [1..2 -> Times]}

InitScanner ==
    /\ mlwh \in ScanWarehouses
    /\ ScannerIdle
    /\ ReconcileIdle
    /\ ResolverIdle
    /\ RoundTripIdle
    /\ ExtractorIdle

ScanChanged ==
    /\ \E t \in Times :
          /\ since' = Some(t)
          /\ yielded' = FindComponentsChanged(mlwh, t)
    /\ UNCHANGED <<mlwh, reconcileVars, resolverVars, roundTripVars, extractorVars>>

NextScanner == ScanChanged

SpecScanner == InitScanner /\ [][NextScanner]_vars

\* ------------------------------------------------------------------------
\* The Component round trip: from_avu, __repr__, from_avu again.
\* ------------------------------------------------------------------------
Reversed(seq) == [n \in 1..Len(seq) |-> seq[Len(seq) + 1 - n]]

\* The descriptors given: runs and positions 1 and 2, no tag index, the bin,
\* a tag or a control, no subset, each SeqSubset value or a string that is
\* none of them, the keys in canonical or in reverse order, under the
\* component attribute or another one.
DescriptorTexts ==
    {Descriptor(r, p, t, sb) :
        r \in {1, 2}, p \in {1, 2},
        t \in {None, Some(BIN), Some(1), Some(CONTROL_888)},
        sb \in {None} \cup {Some(x) : x \in SeqSubset \cup {"mouse"}}}

AvuInputs ==
    {AVU(a, d) : a \in {ComponentAttr, TagIndexKey}, d \in DescriptorTexts}
    \cup {AVU(a, Reversed(d)) : a \in {ComponentAttr, TagIndexKey}, d \in DescriptorTexts}

InitRoundTrip ==
    /\ avu \in AvuInputs
    /\ cpc = "start"
    /\ parsed = None
    /\ text = None
    /\ reparsed = None
    /\ WarehouseIdle
    /\ ReconcileIdle
    /\ ResolverIdle
    /\ ScannerIdle
    /\ ExtractorIdle

ParseAvu ==
    /\ cpc = "start"
    /\ parsed' = Some(FromAvu(avu))
    /\ cpc' = "parsed"
    /\ UNCHANGED <<avu, text, reparsed, mlwh, reconcileVars, resolverVars, scannerVars, extractorVars>>

\* repr() of the Component parsed (when parsing returned one).
Serialize ==
    /\ cpc = "parsed"
    /\ Get(parsed).ok
    /\ text' = Some(Repr(Get(Get(parsed).val)))
    /\ cpc' = "serialized"
    /\ UNCHANGED <<avu, parsed, reparsed, mlwh, reconcileVars, resolverVars, scannerVars, extractorVars>>

\* from_avu of the text written (when repr() returned one).
Reparse ==
    /\ cpc = "serialized"
    /\ Get(text).ok
    /\ reparsed' = Some(FromAvu(AVU(ComponentAttr, Get(Get(text).val))))
    /\ cpc' = "reparsed"
    /\ UNCHANGED <<avu, parsed, text, mlwh, reconcileVars, resolverVars, scannerVars, extractorVars>>

NextRoundTrip == ParseAvu \/ Serialize \/ Reparse

SpecRoundTrip == InitRoundTrip /\ [][NextRoundTrip]_vars

\* ------------------------------------------------------------------------
\* mlwh_locations/illumina.py: create_product_dict
\* ------------------------------------------------------------------------
ILLUMINA == "illumina"
NPG_PROD == "npg-prod"

\* A data object's name is its dot-separated parts; obj.name.split(".")[-1]
\* is the last.
Extension(name) == name[Len(name)]

\* The strings of the model that contain "ranger" and "PhiX".
PathsWithRanger == {"/seq/24338/cellranger"}
ReferencesWithPhiX == {"/refs/PhiX/Sanger-SNPs/all/fasta/phix.fa"}

\* "subset" in meta.value, for the text of a component descriptor.
ContainsSubset(value) == \E n \in 1..Len(value) : value[n][1] = SubsetKey

\* The check for unwanted files.
Unwanted(meta) ==
    \/ meta.attribute = "tag_index" /\ meta.value = "0"
    \/ meta.attribute = "reference" /\ meta.value \in ReferencesWithPhiX
    \/ meta.attribute = "component" /\ ContainsSubset(meta.value)

\* The loop over obj.metadata(): the product dict as it stands after the
\* n-th AVU, or the exception the loop raised.
RECURSIVE ScanMetadata(_, _, _)
ScanMetadata(metadata, n, product) ==
    IF n > Len(metadata) THEN Ok(product)
    ELSE IF Unwanted(metadata[n]) THEN Err("ExcludedObjectException")
    ELSE ScanMetadata(metadata, n + 1,
            [product EXCEPT
                !.id_product = IF metadata[n].attribute = "id_product"
                               THEN Some(metadata[n].value) ELSE @,
                !.pipeline_name = IF metadata[n].attribute = "alt_process"
                                  THEN <<"alt_", metadata[n].value>> ELSE @])

CreateProductDict(obj, ext) ==
    IF Extension(obj.name) = ext /\ obj.path \notin PathsWithRanger
    THEN LET scanned == ScanMetadata(obj.metadata, 1,
                 [seq_platform_name |-> ILLUMINA,
                  pipeline_name |-> <<NPG_PROD>>,
                  irods_root_collection |-> obj.path,
                  irods_data_relative_path |-> obj.name,
                  id_product |-> None])
         IN IF ~scanned.ok THEN scanned
            ELSE IF Get(scanned.val).id_product # None THEN scanned
            ELSE Err("MissingMetadataError")
    ELSE Err("ExcludedObjectException")

\* ------------------------------------------------------------------------
\* mlwh_locations/illumina.py: extract_products and find_products
\* ------------------------------------------------------------------------
\* The except clauses of extract_products: the log level of a handled
\* exception; any other exception leaves extract_products.
HandledMissingOnly(err) == err = "MissingMetadataError"

Handled(err) == err \in {"MissingMetadataError", "ExcludedObjectException"}

LogLevel(err) == IF err = "MissingMetadataError" THEN "warn" ELSE "debug"

\* if not products:
NeedsFallbackAlways(found) == TRUE

NeedsFallback(found) == found = <<>>

\* [p.apply_async(create_product_dict, (str(obj), ext)) for obj in
\* coll.iter_contents() if <obj is a data object>]
RECURSIVE Submitted(_, _, _)
Submitted(contents, n, ext) ==
    IF n > Len(contents) THEN <<>>
    ELSE (IF contents[n].kind = "DataObject"
             THEN <<[obj |-> n, ext |-> ext, state |-> "queued", outcome |-> None]>>
             ELSE <<>>) \o Submitted(contents, n + 1, ext)

\* The collections scanned.
DataObject(path, name, metadata) ==
    [kind |-> "DataObject", path |-> path, name |-> name, metadata |-> metadata]

MetadataLists ==
    {<<AVU("id_product", "p1")>>,
     <<AVU("alt_process", "x"), AVU("id_product", "p2")>>,
     <<AVU("id_product", "p3"), AVU("tag_index", "0")>>,
     <<AVU("component", Descriptor(24338, 1, Some(1), None)),
       AVU("id_product", "p4"),
       AVU("reference", "/refs/Homo_sapiens/GRCh38/all/fasta/hs38.fa"),
       AVU("tag_index", "1")>>,
     <<AVU("id_product", "p5"),
       AVU("reference", "/refs/PhiX/Sanger-SNPs/all/fasta/phix.fa")>>,
     <<AVU("component", Descriptor(24338, 1, Some(1), Some(PHIX))),
       AVU("id_product", "p6")>>,
     <<AVU("tag_index", "1")>>,
     <<AVU("tag_index", "0")>>}

ObjectPool ==
    {DataObject("/seq/24338", <<"24338_1#1", "cram">>, m) : m \in MetadataLists}
    \cup {DataObject("/seq/24338", <<"24338_1#1", "bam">>, m) :
            m \in {<<AVU("id_product", "p1")>>, <<AVU("tag_index", "1")>>,
                   <<AVU("id_product", "p3"), AVU("tag_index", "0")>>}}
    \cup {DataObject("/seq/24338/cellranger", <<"24338_1#1", "cram">>,
                     <<AVU("id_product", "p1")>>),
          DataObject("/seq/24338", <<"24338_1#1", "cram", "crai">>,
                     <<AVU("id_product", "p1")>>),
          [kind |-> "Collection", path |-> "/seq/24338/qc", name |-> <<"qc">>,
           metadata |-> <<>>]}

Collections == UNION {[1..n -> ObjectPool] : n \in 0..MaxObjects}

InitExtractor ==
    /\ coll \in Collections
    /\ processes \in {1, 2}
    /\ ppc = "start"
    /\ tasks = <<>>
    /\ next = 1
    /\ acc = <<>>
    /\ primary = None
    /\ products = <<>>
    /\ log = <<>>
    /\ WarehouseIdle
    /\ ReconcileIdle
    /\ ResolverIdle
    /\ ScannerIdle
    /\ RoundTripIdle

others == <<mlwh, reconcileVars, resolverVars, scannerVars, roundTripVars>>

\* The cram pass: one task per data object.
SubmitCram ==
    /\ ppc = "start"
    /\ tasks' = Submitted(coll, 1, "cram")
    /\ ppc' = "cram"
    /\ UNCHANGED <<coll, processes, next, acc, primary, products, log, others>>

\* A free worker of the pool takes the oldest queued task.
StartTask ==
    /\ ppc \in {"cram", "bam"}
    /\ Cardinality({n \in 1..Len(tasks) : tasks[n].state = "running"}) < processes
    /\ \E n \in 1..Len(tasks) :
          /\ tasks[n].state = "queued"
          /\ \A m \in 1..(n - 1) : tasks[m].state # "queued"
          /\ tasks' = [tasks EXCEPT ![n].state = "running"]
    /\ UNCHANGED <<coll, processes, ppc, next, acc, primary, products, log, others>>

\* A worker ends its task: create_product_dict returns or raises.
FinishTask ==
    /\ ppc \in {"cram", "bam"}
    /\ \E n \in 1..Len(tasks) :
          /\ tasks[n].state = "running"
          /\ tasks' = [tasks EXCEPT
                ![n].state = "done",
                ![n].outcome = Some(CreateProductDict(coll[tasks[n].obj], tasks[n].ext))]
    /\ UNCHANGED <<coll, processes, ppc, next, acc, primary, products, log, others>>

\* One turn of extract_products' loop: result.get() waits for the task, then
\* the product is appended or the exception logged; an exception no clause
\* handles leaves find_products.
ExtractNext ==
    /\ ppc \in {"cram", "bam"}
    /\ next <= Len(tasks)
    /\ tasks[next].state = "done"
    /\ LET result == Get(tasks[next].outcome)
       IN IF result.ok
          THEN /\ acc' = Append(acc, Get(result.val))
               /\ UNCHANGED <<log, ppc>>
          ELSE IF Handled(result.err)
          THEN /\ log' = Append(log, [level |-> LogLevel(result.err),
                                      error |-> result.err,
                                      obj |-> tasks[next].obj])
               /\ UNCHANGED <<acc, ppc>>
          ELSE /\ ppc' = "aborted"
               /\ UNCHANGED <<acc, log>>
    /\ next' = next + 1
    /\ UNCHANGED <<coll, processes, tasks, primary, products, others>>

\* The cram pass found products: they are returned.
ReturnPrimary ==
    /\ ppc = "cram"
    /\ next > Len(tasks)
    /\ ~NeedsFallback(acc)
    /\ products' = acc
    /\ primary' = Some(acc)
    /\ ppc' = "done"
    /\ UNCHANGED <<coll, processes, tasks, next, acc, log, others>>

\* The cram pass found none: the bam pass, one task per data object.
FallBackToBam ==
    /\ ppc = "cram"
    /\ next > Len(tasks)
    /\ NeedsFallback(acc)
    /\ products' = acc
    /\ primary' = Some(acc)
    /\ log' = Append(log, [level |-> "warn", error |-> "No cram files found",
                           obj |-> 0])
    /\ tasks' = tasks \o Submitted(coll, 1, "bam")
    /\ acc' = <<>>
    /\ ppc' = "bam"
    /\ UNCHANGED <<coll, processes, next, others>>

ReturnSecondary ==
    /\ ppc = "bam"
    /\ next > Len(tasks)
    /\ products' = acc
    /\ ppc' = "done"
    /\ UNCHANGED <<coll, processes, tasks, next, acc, primary, log, others>>

NextExtractor ==
    \/ SubmitCram
    \/ StartTask
    \/ FinishTask
    \/ ExtractNext
    \/ ReturnPrimary
    \/ FallBackToBam
    \/ ReturnSecondary

SpecExtractor == InitExtractor /\ [][NextExtractor]_vars

\* ------------------------------------------------------------------------
\* Claims about the reconciliation (checked under Spec)
\* ------------------------------------------------------------------------
Called == results # <<>>
Last == results[Len(results)]

\* What the item's component descriptors say, read from the AVUs themselves.
ItemSubsets(it) ==
    {JsonLoads(it.components[n].value)[SubsetKey].s :
        n \in {m \in 1..Len(it.components) :
                  SubsetKey \in DOMAIN JsonLoads(it.components[m].value)}}

StudiesOf(facts) == {mlwh.flowcells[id].study : id \in facts}
StudyEntries(acl) == {ac \in acl : ac.kind = "study"}

\* C1: a merged object whose components resolve to flowcell rows of two
\* different studies, with no consent-withdrawn marker and no non-consented
\* human component, ends the call with no ACL entry for either study.
C1_MixedStudyNotOpened ==
    (/\ Called
     /\ Last.outcome = "ok"
     /\ Len(prev.components) >= 2
     /\ ~prev.marker
     /\ ItemSubsets(prev) \cap {HUMAN, XAHUMAN} = {}
     /\ Cardinality(StudiesOf(Last.facts)) >= 2)
    => \A ac \in StudyEntries(item.acl) : ac.id \notin StudiesOf(Last.facts)

\* C2: an item carrying the consent-withdrawn marker never has its ACL
\* widened by a call, the accumulated ACL is never written to it, and after a
\* call that returns its ACL holds the entries of the owner and of the
\* administrative accounts only.
C2_ConsentWithdrawnNeverWidened ==
    (Called /\ prev.marker)
    => /\ item.acl \subseteq prev.acl
       /\ \A n \in 1..Len(Last.writes) : Last.writes[n] # "perm"
       /\ Last.outcome = "ok"
          => \A ac \in item.acl : ac.kind \in {"owner", "rodsadmin"}

C2_Witness ==
    /\ Called
    /\ prev.marker
    /\ Last.outcome = "ok"
    /\ StudyEntries(Last.acl) # {}
    /\ ~(StudyEntries(Last.acl) \subseteq prev.acl)
    /\ StudyEntries(prev.acl) # {}

\* C3 as stated, the X/Y-human variant covering both the xahuman and the
\* yhuman subset: without the marker, the lockdown is applied (and the
\* accumulated ACL not written) exactly when a component has a human,
\* xahuman or yhuman subset.
C3_LockdownIffHumanOrXYHuman ==
    (Called /\ Last.outcome = "ok" /\ ~prev.marker)
    => (Last.writes = <<"xahu">>
        <=> ItemSubsets(prev) \cap {HUMAN, XAHUMAN, YHUMAN} # {})

\* C3 amended: without the marker, the lockdown is applied (and the
\* accumulated ACL not written) exactly when a component has the human or the
\* xahuman subset; with yhuman, phix or no subset on every component the
\* accumulated ACL is written and no lockdown applied.  Exactly one of the
\* two writes happens.
C3_LockdownIffHumanOrXaHuman ==
    (Called /\ Last.outcome = "ok" /\ ~prev.marker)
    => /\ Last.writes \in {<<"xahu">>, <<"perm">>}
       /\ Last.writes = <<"xahu">>
          <=> ItemSubsets(prev) \cap {HUMAN, XAHUMAN} # {}
       /\ Last.writes = <<"xahu">> => item.acl = ConsentWithdrawnAcl(prev.acl)
       /\ Last.writes = <<"perm">> => item.acl = Last.acl

C3_Witness ==
    /\ Called
    /\ Last.outcome = "ok"
    /\ ~prev.marker
    /\ ItemSubsets(prev) = {XAHUMAN}
    /\ Last.writes = <<"xahu">>
    /\ Last.acl # {}
    /\ item.acl # prev.acl

\* C5: a second (or later) call on the unchanged item and warehouse, when it
\* returns, reports no change and leaves the item's metadata and ACL as the
\* call before left them.
C5_SecondRunChangesNothing ==
    (Len(results) >= 2 /\ Last.outcome = "ok")
    => /\ ~Last.changed
       /\ item = prev

C5_Witness ==
    /\ Len(results) = 2
    /\ results[1].outcome = "ok"
    /\ results[1].changed
    /\ results[1].writes = <<"xahu">>
    /\ results[1].item.acl # ConsentWithdrawnAcl(results[1].acl \cup {AC("public", 0, "read")})
    /\ Last.outcome = "ok"

\* ------------------------------------------------------------------------
\* Claims about the flowcell resolver (checked under SpecResolver)
\* ------------------------------------------------------------------------
Asked == Get(call)
Answer == Get(answer)
NoDuplicates(seq) == \A m, n \in 1..Len(seq) : seq[m] = seq[n] => m = n

\* C4: a call with a control tag index (198 or 888) and include_controls
\* false always raises; it never returns a list, whatever the warehouse holds.
C4_ControlWithControlsExcludedRaises ==
    (/\ call # None
     /\ Asked.component.tag_index \in {Some(198), Some(888)}
     /\ ~Asked.include_controls)
    => /\ ~Answer.ok
       /\ Answer.err = "ValueError"
       /\ Answer.val = None

C4_Witness ==
    /\ call # None
    /\ Asked.component.tag_index = Some(888)
    /\ ~Asked.include_controls
    /\ ~Answer.ok
    /\ \E id \in 1..Len(mlwh.flowcells) :
          /\ mlwh.flowcells[id].tag_index = Some(888)
          /\ mlwh.flowcells[id].position = Asked.component.position
          /\ \E pm \in mlwh.metrics :
                pm.id_iseq_flowcell_tmp = id /\ pm.id_run = Asked.component.id_run

\* The flowcell rows of a run and position that carry a tag index.
TaggedRowsOf(id_run, position) ==
    {id \in 1..Len(mlwh.flowcells) :
        /\ mlwh.flowcells[id].position = position
        /\ mlwh.flowcells[id].tag_index # None
        /\ \E pm \in mlwh.metrics :
              pm.id_iseq_flowcell_tmp = id /\ pm.id_run = id_run}

Timestamps(fc, pm) ==
    {mlwh.samples[fc.sample], mlwh.studies[fc.study], fc.recorded_at,
     pm.last_changed}

\* The (id_run, position, tag_index) triples with a timestamp at or after t.
TriplesChangedSince(t) ==
    {<<pm.id_run, mlwh.flowcells[pm.id_iseq_flowcell_tmp].position,
       mlwh.flowcells[pm.id_iseq_flowcell_tmp].tag_index>> :
        pm \in {q \in mlwh.metrics :
                   \E ts \in Timestamps(mlwh.flowcells[q.id_iseq_flowcell_tmp], q) :
                       ts >= t}}

TripleOf(c) == <<c.id_run, c.position, c.tag_index>>

ValidDescriptor(a) ==
    LET d == JsonLoads(a.value)
    IN /\ a.attribute = "component"
       /\ {"id_run", "position"} \subseteq DOMAIN d
       /\ "tag_index" \in DOMAIN d => d["tag_index"].t = "int" /\ d["tag_index"].i >= 0
       /\ "subset" \in DOMAIN d
          => d["subset"].t = "str" /\ d["subset"].s \in {"human", "xahuman", "yhuman", "phix"}

\* C10: for every valid descriptor, parsing it, serializing the Component
\* with __repr__ and parsing that text each succeed, and the second Component
\* equals the first.
C10_RoundTripStable ==
    ValidDescriptor(avu)
    => /\ cpc = "parsed" => Get(parsed).ok
       /\ cpc = "serialized" => Get(text).ok
       /\ cpc = "reparsed" => Get(reparsed).ok /\ Get(reparsed).val = Get(parsed).val

\* ------------------------------------------------------------------------
\* Claims about the product extractor (checked under SpecExtractor)
\* ------------------------------------------------------------------------
AvusOf(obj) == Range(obj.metadata)

\* An object is in an excluded class: tag_index "0", a PhiX reference or a
\* component with a subset key (or it is not a file of the extension asked
\* for, or lies under a ranger path).
Excluded(obj, ext) ==
    \/ obj.name[Len(obj.name)] # ext
    \/ obj.path = "/seq/24338/cellranger"
    \/ \E m \in AvusOf(obj) : m.attribute = "tag_index" /\ m.value = "0"
    \/ \E m \in AvusOf(obj) :
          m.attribute = "reference"
          /\ m.value = "/refs/PhiX/Sanger-SNPs/all/fasta/phix.fa"
    \/ \E m \in AvusOf(obj) :
          m.attribute = "component" /\ "subset" \in KeysOf(m.value)

MissingIdProduct(obj) == \A m \in AvusOf(obj) : m.attribute # "id_product"

TaskSucceeds(obj, ext) == ~Excluded(obj, ext) /\ ~MissingIdProduct(obj)

\* The data objects of the collection, by position, whose task of the
\* extension succeeds.
RECURSIVE Succeeding(_, _)
Succeeding(n, ext) ==
    IF n > Len(coll) THEN <<>>
    ELSE (IF coll[n].kind = "DataObject" /\ TaskSucceeds(coll[n], ext)
             THEN <<n>> ELSE <<>>) \o Succeeding(n + 1, ext)

BamPassStarted == \E n \in 1..Len(tasks) : tasks[n].ext = "bam"
FallbackLogged == \E n \in 1..Len(log) : log[n].error = "No cram files found"
FinalExtension == IF FallbackLogged THEN "bam" ELSE "cram"

\* C7: find_products returns exactly one product per object whose task
\* succeeded, of that object; an excluded object and one without id_product
\* contribute none, are logged (debug and warn), and never end the batch.
C7_ProductsOfSucceededTasksOnly ==
    /\ ppc # "aborted"
    /\ ppc = "done"
       => LET good == Succeeding(1, FinalExtension)
          IN /\ Len(products) = Len(good)
             /\ \A k \in 1..Len(good) :
                   /\ products[k].irods_root_collection = coll[good[k]].path
                   /\ products[k].irods_data_relative_path = coll[good[k]].name
                   /\ products[k].id_product # None
                   /\ \E m \in AvusOf(coll[good[k]]) :
                         m.attribute = "id_product"
                         /\ products[k].id_product = Some(m.value)
             /\ \A n \in 1..Len(coll) :
                   (coll[n].kind = "DataObject" /\ ~TaskSucceeds(coll[n], FinalExtension))
                   => \E e \in Range(log) :
                         /\ e.obj = n
                         /\ e.level = IF Excluded(coll[n], FinalExtension)
                                      THEN "debug" ELSE "warn"

C7_Witness ==
    /\ ppc = "done"
    /\ Len(coll) = 2
    /\ \E m \in AvusOf(coll[1]) : m.attribute = "tag_index" /\ m.value = "0"
    /\ coll[1].name = <<"24338_1#1", "cram">>
    /\ Len(products) = 1
    /\ products[1].irods_data_relative_path = <<"24338_1#1", "cram">>
    /\ \E e \in Range(log) : e.obj = 1 /\ e.level = "debug"

\* C8: the bam pass is started exactly when the cram pass has been collected
\* in full and gave no product; when the cram pass gives a product the result
\* is the cram pass's products and no bam task is ever submitted.  There are
\* at most two passes: every task is of the cram or of the bam pass, one per
\* data object and pass.
C8_BamPassOnlyAfterEmptyCramPass ==
    /\ (BamPassStarted \/ FallbackLogged \/ ppc = "bam")
       => /\ primary = Some(<<>>)
          /\ \A n \in 1..Len(tasks) :
                tasks[n].ext = "cram" => tasks[n].state = "done" /\ n < next
    /\ (ppc = "done" /\ primary = Some(<<>>)) => FallbackLogged
    /\ (primary # None /\ primary # Some(<<>>))
       => /\ ppc = "done"
          /\ products = Get(primary)
          /\ ~BamPassStarted
          /\ ~FallbackLogged
    /\ ppc = "done" => primary # None
    /\ \A ext \in {"cram", "bam"} :
          Cardinality({n \in 1..Len(tasks) : tasks[n].ext = ext})
             <= Cardinality({n \in 1..Len(coll) : coll[n].kind = "DataObject"})
    /\ \A n \in 1..Len(tasks) : tasks[n].ext \in {"cram", "bam"}

C8_Witness ==
    /\ ppc = "done"
    /\ primary = Some(<<>>)
    /\ BamPassStarted
    /\ \E n \in 1..Len(tasks) : tasks[n].ext = "cram"
    /\ products # <<>>

====
